---- MODULE Spec2Model ----
(***************************************************************************)
(* Write path of the zerostash object store (libzerostash/src/objects.rs): *)
(* Storage packs compressed, encrypted chunks into fixed-size objects and  *)
(* hands full objects to a backend.                                        *)
(*                                                                         *)
(* Bytes are symbolic 5-tuples <<kind, a, b, c, e>>:                       *)
(*   <<"zero", 0, 0, 0, 0>>      a byte of a freshly allocated BlockBuffer *)
(*   <<"rnd", n, p, 0, 0>>       byte p of the n-th Random::fill of a tail *)
(*   <<"raw", d, i, 0, 0>>       byte i of the caller's chunk d            *)
(*   <<"lz", d, i, 0, 0>>        byte i of compress::block(chunk d)        *)
(*   <<"enc", id, h, d, i>>      lz byte (d, i) encrypted for object id    *)
(*                               and chunk hash h                          *)
(*   <<"bad", 0, 0, 0, 0>>       what decrypting with the wrong key yields *)
(* Object identifiers are drawn from a counter: every Random::fill of an   *)
(* ObjectId yields a value never seen before.                              *)
(***************************************************************************)
EXTENDS Integers, Sequences, FiniteSets, TLC

\* ------------------------------------------------------------- bounds
\* crate::BLOCK_SIZE, scaled down (the crate uses a power of two of MiBs).
BLOCK_SIZE == 16
\* the number of Storage instances (the original and its clones)
MaxInst == 2
\* the number of trait calls (store_chunk, flush, clone) in one run
MaxCalls == 4

\* the number of calls made on the Object of SpecObject
MaxObjCalls == 3
\* the number of store_chunk and flush calls on the NullStorage clones
MaxNullCalls == 3
\* i64::MAX, scaled down: seek offsets are signed integers of this range
I64_MAX == 63

\* size_of::<Tag>()
TagSize == 4

Insts == 1..MaxInst

\* ------------------------------------------------------------- inputs
\* The chunks a caller may pass: chunk d is Data(d).
Chunks == 1..5
\* The content hash of chunk d, which the caller passes along with it
\* (store_chunk never looks into the hash).
Digest(d) == 100 + d

RawLen(d) ==
  CASE d = 1 -> 10
    [] d = 2 -> 4
    [] d = 3 -> BLOCK_SIZE
    [] d = 4 -> BLOCK_SIZE + 4
    [] OTHER -> 1

Data(d) == [i \in 1..RawLen(d) |-> <<"raw", d, i, 0, 0>>]

\* The chunk a byte sequence is (chunks differ in their first byte).
ChunkOf(data) == data[1][2]

\* Length of compress::block's output: shorter than the input for a
\* compressible chunk, longer for an incompressible one.
CompLen(d) ==
  CASE d = 1 -> 8
    [] d = 2 -> 5
    [] d = 3 -> BLOCK_SIZE - 5
    [] d = 4 -> BLOCK_SIZE + 1
    [] OTHER -> 0

\* compress::block fails on chunk 5.
CompressFails(d) == d = 5

compress_block(data) ==
  LET d == ChunkOf(data) IN
  IF CompressFails(d)
    THEN [ok |-> FALSE, bytes |-> <<>>]
    ELSE [ok |-> TRUE, bytes |-> [i \in 1..CompLen(d) |-> <<"lz", d, i, 0, 0>>]]

decompress_block(bytes) ==
  IF bytes # <<>> /\ \A i \in 1..Len(bytes) :
         bytes[i][1] = "lz" /\ bytes[i][2] = bytes[1][2] /\ bytes[i][3] = i
    THEN LET d == bytes[1][2] IN
         IF Len(bytes) = CompLen(d) THEN Data(d) ELSE <<>>
    ELSE <<>>

\* ------------------------------------------------------------- crypto
ZeroByte == <<"zero", 0, 0, 0, 0>>
BadByte == <<"bad", 0, 0, 0, 0>>
RandomByte(n, p) == <<"rnd", n, p, 0, 0>>

\* CryptoProvider::encrypt_chunk(&object, hash, &mut compressed): encrypts
\* in place, bound to the object's id and the hash, and returns the tag.
encrypt_chunk(object, hash, compressed) ==
  [bytes |-> [i \in 1..Len(compressed) |->
                <<"enc", object.id, hash, compressed[i][2], compressed[i][3]>>],
   tag |-> <<"tag", object.id, hash, Len(compressed), 0>>]

decrypt_chunk(id, hash, bytes) ==
  [i \in 1..Len(bytes) |->
     IF bytes[i][1] = "enc" /\ bytes[i][2] = id /\ bytes[i][3] = hash
       THEN <<"lz", bytes[i][4], bytes[i][5], 0, 0>>
       ELSE BadByte]

\* ------------------------------------------------------------- Object
BlockBufferDefault == [p \in 1..BLOCK_SIZE |-> ZeroByte]

\* Default for Object<T>: capacity is the buffer's length.
ObjectDefault ==
  [id |-> 0, buffer |-> BlockBufferDefault,
   capacity |-> Len(BlockBufferDefault), cursor |-> 0]

reserve_tag(object) == [object EXCEPT !.capacity = BLOCK_SIZE - TagSize]

position(object) == object.cursor

reset_cursor(object) == [object EXCEPT !.cursor = 0]

id_reset(object, fresh) == [object EXCEPT !.id = fresh]

\* finalize, had it filled the whole buffer instead of the tail
finalize_whole(object, n) ==
  [object EXCEPT !.buffer =
     [p \in 1..Len(object.buffer) |-> RandomByte(n, p)]]

\* finalize, had it started one byte after the cursor
finalize_skipping_one(object, n) ==
  [object EXCEPT !.buffer =
     [p \in 1..Len(object.buffer) |->
        IF p > object.cursor + 1 THEN RandomByte(n, p) ELSE object.buffer[p]]]

\* random.fill(&mut buffer[cursor..]): buffer[p] holds the byte at offset p-1.
finalize(object, n) ==
  [object EXCEPT !.buffer =
     [p \in 1..Len(object.buffer) |->
        IF p > object.cursor THEN RandomByte(n, p) ELSE object.buffer[p]]]

\* the slice index of write, had it not been range-checked
write_panics_never(object, buf) == FALSE

\* buffer[ofs..ofs+len] panics when ofs + len exceeds the buffer's length.
write_panics(object, buf) == object.cursor + Len(buf) > Len(object.buffer)

\* write, had it copied to the start of the buffer instead of the cursor
write_at_start(object, buf) ==
  [object EXCEPT
     !.buffer = [p \in 1..Len(object.buffer) |->
                   IF p <= Len(buf) THEN buf[p] ELSE object.buffer[p]],
     !.cursor = object.cursor + Len(buf)]

\* write, had it left the cursor where it was
write_keeping_cursor(object, buf) ==
  [object EXCEPT
     !.buffer = [p \in 1..Len(object.buffer) |->
                   IF p > object.cursor /\ p <= object.cursor + Len(buf)
                     THEN buf[p - object.cursor] ELSE object.buffer[p]]]

write(object, buf) ==
  [object EXCEPT
     !.buffer = [p \in 1..Len(object.buffer) |->
                   IF p > object.cursor /\ p <= object.cursor + Len(buf)
                     THEN buf[p - object.cursor] ELSE object.buffer[p]],
     !.cursor = object.cursor + Len(buf)]

\* Clone for Object, had it copied the cursor over a newly allocated buffer
ObjectClone_fresh_buffer(object) ==
  [id |-> object.id, buffer |-> [p \in 1..Len(object.buffer) |-> ZeroByte],
   capacity |-> object.capacity, cursor |-> object.cursor]

ObjectClone(object) ==
  [id |-> object.id, buffer |-> object.buffer,
   capacity |-> object.capacity, cursor |-> object.cursor]

\* Object::new(buffer): the capacity is BLOCK_SIZE whatever the buffer is.
ObjectNew(buffer) ==
  [id |-> 0, buffer |-> buffer, capacity |-> BLOCK_SIZE, cursor |-> 0]

\* Object::with_id(id, buffer)
with_id(id, buffer) ==
  [id |-> id, buffer |-> buffer, capacity |-> Len(buffer), cursor |-> 0]

\* Object::clear zeroes the whole buffer.
clear(object) ==
  [object EXCEPT !.buffer = [p \in 1..Len(object.buffer) |-> ZeroByte]]

\* &buffer[..capacity] (as_ref, as_mut) and &mut buffer[capacity..]
\* (write_tag) panic when the capacity exceeds the buffer's length.
view_panics(object) == object.capacity > Len(object.buffer)

\* Read for Object::read of n bytes: the bound is the buffer's length.
read(object, n) ==
  LET end == n + object.cursor IN
  IF end > Len(object.buffer)
    THEN [object |-> object, result |-> "eof", bytes |-> <<>>, ret |-> 0]
    ELSE [object |-> [object EXCEPT !.cursor = end], result |-> "ok",
          bytes |-> SubSeq(object.buffer, object.cursor + 1, end), ret |-> n]

\* the value of x in two's complement of the width of I64_MAX
WrapI64(x) ==
  ((x + I64_MAX + 1) % (2 * (I64_MAX + 1))) - (I64_MAX + 1)

\* Seek for Object::seek. pos is <<"start", s>> with s unsigned, or
\* <<"end", e>> or <<"current", c>> with e, c signed. `cursor as i64 + c`
\* overflows for large c: with overflow checks (checks) the build panics,
\* without them the sum wraps.
seek(object, pos, checks) ==
  LET umax == object.capacity
      imax == object.capacity
      invalid == [object |-> object, result |-> "invalid", ret |-> 0]
      moved(c) == [object |-> [object EXCEPT !.cursor = c], result |-> "ok",
                   ret |-> c]
  IN
  CASE pos[1] = "start" ->
         IF pos[2] > umax THEN invalid ELSE moved(pos[2])
    [] pos[1] = "end" ->
         IF pos[2] < 0 THEN invalid
         ELSE IF pos[2] > imax THEN invalid
         ELSE moved(object.capacity - pos[2])
    [] OTHER ->
         LET sum == object.cursor + pos[2]
             new_pos == WrapI64(sum)
         IN
         IF sum # new_pos /\ checks
           THEN [object |-> object, result |-> "panic", ret |-> 0]
         ELSE IF new_pos < 0 THEN invalid
         ELSE IF new_pos > imax THEN invalid
         ELSE moved(new_pos)

\* ------------------------------------------------------------ Storage
NoStorage == [live |-> FALSE, object |-> ObjectDefault, capacity |-> 0]

\* Storage::new, had it reserved a tag region
StorageNew_reserving(fresh) ==
  LET object == id_reset(reserve_tag(ObjectDefault), fresh) IN
  [live |-> TRUE, object |-> object, capacity |-> object.capacity]

\* Storage::new(backend, crypto)
StorageNew(fresh) ==
  LET object == id_reset(ObjectDefault, fresh) IN
  [live |-> TRUE, object |-> object, capacity |-> object.capacity]

\* Clone for Storage, had it kept the original's identifier
StorageClone_same_id(s, fresh) ==
  [live |-> TRUE, object |-> ObjectClone(s.object), capacity |-> s.capacity]

\* Clone for Storage
StorageClone(s, fresh) ==
  [live |-> TRUE, object |-> id_reset(ObjectClone(s.object), fresh),
   capacity |-> s.capacity]

\* flush, had it rotated the identifier before the backend write
flush_rotating_first(s, bok, fresh, n) ==
  LET fin == finalize(s.object, n) IN
  IF bok
    THEN [storage |-> [s EXCEPT !.object = reset_cursor(id_reset(fin, fresh))],
          result |-> "ok", written |-> fin]
    ELSE [storage |-> [s EXCEPT !.object = id_reset(fin, fresh)],
          result |-> "backend_err", written |-> fin]

\* flush, had it reset the cursor before the backend write
flush_resetting_first(s, bok, fresh, n) ==
  LET fin == finalize(s.object, n) IN
  IF bok
    THEN [storage |-> [s EXCEPT !.object = reset_cursor(id_reset(fin, fresh))],
          result |-> "ok", written |-> fin]
    ELSE [storage |-> [s EXCEPT !.object = reset_cursor(fin)],
          result |-> "backend_err", written |-> fin]

\* flush, had it ignored the backend's error and rotated all the same
flush_ignoring_error(s, bok, fresh, n) ==
  LET fin == finalize(s.object, n) IN
  [storage |-> [s EXCEPT !.object = reset_cursor(id_reset(fin, fresh))],
   result |-> IF bok THEN "ok" ELSE "backend_err", written |-> fin]

\* flush, had it kept the identifier on success
flush_keeping_id(s, bok, fresh, n) ==
  LET fin == finalize(s.object, n) IN
  IF bok
    THEN [storage |-> [s EXCEPT !.object = reset_cursor(fin)],
          result |-> "ok", written |-> fin]
    ELSE [storage |-> [s EXCEPT !.object = fin],
          result |-> "backend_err", written |-> fin]

\* Storage::flush; bok is the outcome of backend.write_object. `written`
\* is the object write_object was handed.
flush(s, bok, fresh, n) ==
  LET fin == finalize(s.object, n) IN
  IF bok
    THEN [storage |-> [s EXCEPT !.object = reset_cursor(id_reset(fin, fresh))],
          result |-> "ok", written |-> fin]
    ELSE [storage |-> [s EXCEPT !.object = fin],
          result |-> "backend_err", written |-> fin]

\* the capacity check, had it left the cursor out
needs_flush_size_only(offs, size, capacity) == size > capacity

\* the capacity check, had it refused an exact fit
needs_flush_ge(offs, size, capacity) == offs + size >= capacity

\* offs + size > self.capacity
needs_flush(offs, size, capacity) == offs + size > capacity

\* the pointer, had it recorded the cursor after the write
chunk_pointer_post(offs, size, object, hash, tag) ==
  [offs |-> object.cursor, size |-> size, file |-> object.id,
   hash |-> hash, tag |-> tag]

\* ChunkPointer { offs, size, file: self.object.id, hash, tag }; `as u32`
\* keeps offs and size: a write that did not panic has
\* offs + size <= BLOCK_SIZE, which fits 32 bits
chunk_pointer(offs, size, object, hash, tag) ==
  [offs |-> offs, size |-> size, file |-> object.id, hash |-> hash, tag |-> tag]

NoPtr == <<>>

\* Storage::store_chunk. nflush counts the write_object calls made.
\* write_all calls write only for a non-empty buffer; a write that runs past
\* the buffer panics before it copies a byte or moves the cursor, and the
\* unwinding drops the instance (live becomes FALSE).
store_chunk(s, hash, data, bok, fresh, n) ==
  LET c == compress_block(data) IN
  IF ~c.ok
    THEN [storage |-> s, result |-> "codec_err", ptr |-> NoPtr,
          nflush |-> 0, written |-> s.object]
    ELSE
      LET size == Len(c.bytes)
          offs0 == position(s.object)
          must == needs_flush(offs0, size, s.capacity)
          f == flush(s, bok, fresh, n)
      IN
      IF must /\ f.result # "ok"
        THEN [storage |-> f.storage, result |-> f.result, ptr |-> NoPtr,
              nflush |-> 1, written |-> f.written]
        ELSE
          LET s1 == IF must THEN f.storage ELSE s
              offs == position(s1.object)
              e == encrypt_chunk(s1.object, hash, c.bytes)
              nfl == IF must THEN 1 ELSE 0
          IN
          IF Len(e.bytes) > 0 /\ write_panics(s1.object, e.bytes)
            THEN [storage |-> [s1 EXCEPT !.live = FALSE], result |-> "panic",
                  ptr |-> NoPtr, nflush |-> nfl, written |-> f.written]
            ELSE
              LET s2 == [s1 EXCEPT !.object = write(s1.object, e.bytes)] IN
              [storage |-> s2, result |-> "ok",
               ptr |-> <<chunk_pointer(offs, size, s2.object, hash, e.tag)>>,
               nflush |-> nfl, written |-> f.written]

\* -------------------------------------------------------------- state
VARIABLES
  storage,   \* storage[i]: the Storage instance i (NoStorage before its clone)
  backend,   \* the write_object calls, in order: [object, ok, inst, data,
             \* hash]; data and hash are the arguments of the store_chunk
             \* that made the call, 0 for a call of flush
  returned,  \* the ChunkPointers returned, in order: [ptr, inst, data]
  nextId,    \* the next fresh ObjectId
  nextFill,  \* the number of the next Random::fill of a buffer tail
  ncalls,    \* calls made so far
  last       \* the last call: its arguments, its result, and what it found:
             \* pre (the instance before the call; for clone, the original),
             \* nback and nret (the lengths of backend and returned)

VARIABLES
  obj,       \* the Object of SpecObject: [kind, live, object]; kind is
             \* "block" (Object<BlockBuffer>) or "read" (Object<ReadBuffer>)
  obj_last,  \* the last call on it: [op, arg, result, ret, bytes, pre]
  obj_calls  \* calls made on it so far

VARIABLES
  counter,       \* SpecNull: the usize behind NullStorage's Arc<Mutex<_>>
  lock,          \* the clone holding the Mutex, 0 when it is free
  producer,      \* producer[t]: NullStorage clone t, [live, pc, len, reg];
                 \* pc is its position in store_chunk, len the payload
                 \* length of the call, reg the counter value it loaded
  null_sum,      \* the sum of the payload lengths of the calls made
  null_returned, \* the pointers store_chunk returned
  null_calls     \* calls made so far

StorageVars == <<storage, backend, returned, nextId, nextFill, ncalls, last>>
ObjectVars == <<obj, obj_last, obj_calls>>
NullVars == <<counter, lock, producer, null_sum, null_returned, null_calls>>
vars == <<StorageVars, ObjectVars, NullVars>>

NoProducer == [live |-> FALSE, pc |-> "idle", len |-> 0, reg |-> 0]

\* SpecNull is not running
NullIdle ==
  /\ counter = 0
  /\ lock = 0
  /\ producer = [t \in Insts |-> NoProducer]
  /\ null_sum = 0
  /\ null_returned = {}
  /\ null_calls = 0

NoObjCall ==
  [op |-> "none", arg |-> <<"none", 0>>, result |-> "ok", ret |-> 0,
   bytes |-> <<>>, pre |-> ObjectDefault]

\* SpecObject is not running
ObjectIdle ==
  /\ obj = [kind |-> "block", live |-> FALSE, object |-> ObjectDefault]
  /\ obj_last = NoObjCall
  /\ obj_calls = 0

NoCall ==
  [op |-> "new", inst |-> 1, src |-> 1, hash |-> 0, data |-> 0,
   result |-> "ok", nflush |-> 0, pre |-> NoStorage, ptr |-> NoPtr,
   nback |-> 0, nret |-> 0]

Init ==
  /\ storage = [i \in Insts |-> IF i = 1 THEN StorageNew(1) ELSE NoStorage]
  /\ backend = <<>>
  /\ returned = <<>>
  /\ nextId = 2
  /\ nextFill = 1
  /\ ncalls = 0
  /\ last = NoCall
  /\ ObjectIdle
  /\ NullIdle

\* the write_object calls a call with nflush calls appends to the log
Writes(i, nflush, object, ok, d, hash) ==
  IF nflush = 0
    THEN <<>>
    ELSE <<[object |-> object, ok |-> ok, inst |-> i, data |-> d, hash |-> hash]>>

StoreChunk(i, hash, d, bok) ==
  /\ ncalls < MaxCalls
  /\ storage[i].live
  /\ LET r == store_chunk(storage[i], hash, Data(d), bok, nextId, nextFill) IN
     /\ storage' = [storage EXCEPT ![i] = r.storage]
     /\ backend' = backend \o Writes(i, r.nflush, r.written, bok, d, hash)
     /\ returned' = returned \o
          [k \in 1..Len(r.ptr) |-> [ptr |-> r.ptr[k], inst |-> i, data |-> d]]
     /\ nextId' = IF r.nflush > 0 /\ bok THEN nextId + 1 ELSE nextId
     /\ nextFill' = nextFill + r.nflush
     /\ last' = [op |-> "store_chunk", inst |-> i, src |-> i, hash |-> hash,
                 data |-> d, result |-> r.result, nflush |-> r.nflush,
                 pre |-> storage[i], ptr |-> r.ptr,
                 nback |-> Len(backend), nret |-> Len(returned)]
  /\ ncalls' = ncalls + 1

Flush(i, bok) ==
  /\ ncalls < MaxCalls
  /\ storage[i].live
  /\ LET r == flush(storage[i], bok, nextId, nextFill) IN
     /\ storage' = [storage EXCEPT ![i] = r.storage]
     /\ backend' = backend \o Writes(i, 1, r.written, bok, 0, 0)
     /\ nextId' = IF bok THEN nextId + 1 ELSE nextId
     /\ nextFill' = nextFill + 1
     /\ last' = [op |-> "flush", inst |-> i, src |-> i, hash |-> 0, data |-> 0,
                 result |-> r.result, nflush |-> 1, pre |-> storage[i],
                 ptr |-> NoPtr, nback |-> Len(backend), nret |-> Len(returned)]
  /\ ncalls' = ncalls + 1
  /\ UNCHANGED returned

Clone(i, j) ==
  /\ ncalls < MaxCalls
  /\ storage[i].live
  /\ ~storage[j].live
  /\ storage[j] = NoStorage
  /\ \A k \in Insts : k < j => storage[k] # NoStorage
  /\ storage' = [storage EXCEPT ![j] = StorageClone(storage[i], nextId)]
  /\ nextId' = nextId + 1
  /\ last' = [op |-> "clone", inst |-> j, src |-> i, hash |-> 0, data |-> 0,
              result |-> "ok", nflush |-> 0, pre |-> storage[i], ptr |-> NoPtr,
              nback |-> Len(backend), nret |-> Len(returned)]
  /\ ncalls' = ncalls + 1
  /\ UNCHANGED <<backend, returned, nextFill>>

Next ==
  \/ \E i \in Insts, d \in Chunks, bok \in BOOLEAN :
       StoreChunk(i, Digest(d), d, bok) /\ UNCHANGED <<ObjectVars, NullVars>>
  \/ \E i \in Insts, bok \in BOOLEAN :
       Flush(i, bok) /\ UNCHANGED <<ObjectVars, NullVars>>
  \/ \E i \in Insts, j \in Insts :
       Clone(i, j) /\ UNCHANGED <<ObjectVars, NullVars>>

Spec == Init /\ [][Next]_vars

\* ------------------------------------------------- SpecObject: one Object
\* The lengths of the byte sources a ReadBuffer wraps.
ObjLens == {3, BLOCK_SIZE, BLOCK_SIZE + 2}

\* byte p of a byte source fetched off a backend
StoredByte(p) == <<"raw", 0, p, 0, 0>>
ReadBufferNew(len) == [p \in 1..len |-> StoredByte(p)]

\* The objects the constructors make: default() and new(buffer) over a
\* BlockBuffer, new(buffer) and with_id(id, buffer) over a ReadBuffer.
ObjInits ==
  {[kind |-> "block", live |-> TRUE, object |-> ObjectDefault],
   [kind |-> "block", live |-> TRUE, object |-> ObjectNew(BlockBufferDefault)]}
  \cup {[kind |-> "read", live |-> TRUE, object |-> ObjectNew(ReadBufferNew(len))] :
          len \in ObjLens}
  \cup {[kind |-> "read", live |-> TRUE, object |-> with_id(7, ReadBufferNew(len))] :
          len \in ObjLens}

\* Spec is not running: no Storage was made
StorageIdle ==
  /\ storage = [i \in Insts |-> NoStorage]
  /\ backend = <<>>
  /\ returned = <<>>
  /\ nextId = 1
  /\ nextFill = 1
  /\ ncalls = 0
  /\ last = NoCall

ObjectInit ==
  /\ StorageIdle
  /\ NullIdle
  /\ obj \in ObjInits
  /\ obj_last = NoObjCall
  /\ obj_calls = 0

\* a call on the object: what it leaves, and what it returned
ObjCall(op, arg, object, live, result, ret, bytes) ==
  /\ obj_calls < MaxObjCalls
  /\ obj.live
  /\ obj' = [obj EXCEPT !.object = object, !.live = live]
  /\ obj_last' = [op |-> op, arg |-> arg, result |-> result, ret |-> ret,
                  bytes |-> bytes, pre |-> obj.object]
  /\ obj_calls' = obj_calls + 1
  /\ UNCHANGED <<StorageVars, NullVars>>

ReserveTag ==
  /\ obj.live
  /\ ObjCall("reserve_tag", <<"none", 0>>, reserve_tag(obj.object), TRUE, "ok",
             0, <<>>)

\* clear and write need AsMut<[u8]>, which a ReadBuffer does not give
Clear ==
  /\ obj.kind = "block"
  /\ ObjCall("clear", <<"none", 0>>, clear(obj.object), TRUE, "ok", 0, <<>>)

Write(d) ==
  /\ obj.kind = "block"
  /\ IF write_panics(obj.object, Data(d))
       THEN ObjCall("write", <<"write", d>>, obj.object, FALSE, "panic", 0, <<>>)
       ELSE ObjCall("write", <<"write", d>>, write(obj.object, Data(d)), TRUE,
                    "ok", Len(Data(d)), <<>>)

Read(n) ==
  /\ obj.live
  /\ LET r == read(obj.object, n) IN
     ObjCall("read", <<"read", n>>, r.object, TRUE, r.result, r.ret, r.bytes)

\* the seek requests tried
SeekRequests ==
  {<<"start", s>> : s \in {0, 10, BLOCK_SIZE - TagSize, BLOCK_SIZE, BLOCK_SIZE + 1}}
  \cup {<<"end", e>> : e \in {-1, 0, 4, BLOCK_SIZE + 1}}
  \cup {<<"current", c>> : c \in {-I64_MAX - 1, -4, 0, 4, I64_MAX}}

Seek(pos, checks) ==
  /\ obj.live
  /\ LET r == seek(obj.object, pos, checks) IN
     ObjCall("seek", pos, r.object, r.result # "panic", r.result, r.ret, <<>>)

ObjectNext ==
  \/ ReserveTag
  \/ Clear
  \/ \E d \in {1, 2} : Write(d)
  \/ \E n \in {0, 4} : Read(n)
  \/ \E pos \in SeekRequests, checks \in BOOLEAN : Seek(pos, checks)

SpecObject == ObjectInit /\ [][ObjectNext]_vars

\* ------------------------------------- SpecNull: NullStorage and its clones
\* Arc::default(): a pointer to ChunkPointer::default()
DefaultPointer ==
  [offs |-> 0, size |-> 0, file |-> 0, hash |-> 0, tag |-> <<"tag", 0, 0, 0, 0>>]

\* NullStorage::default(): one handle on a counter of 0
NullInit ==
  /\ StorageIdle
  /\ ObjectIdle
  /\ counter = 0
  /\ lock = 0
  /\ producer = [t \in Insts |-> IF t = 1 THEN [NoProducer EXCEPT !.live = TRUE]
                                           ELSE NoProducer]
  /\ null_sum = 0
  /\ null_returned = {}
  /\ null_calls = 0

\* Mutex::lock, had it let a second clone in
lock_free_always(l) == TRUE

\* Mutex::lock returns once no clone holds the Mutex
lock_free(l) == l = 0

\* store_chunk(_hash, data) is called on clone t
NullStoreChunk(t, d) ==
  /\ null_calls < MaxNullCalls
  /\ producer[t].live /\ producer[t].pc = "idle"
  /\ producer' = [producer EXCEPT ![t].pc = "lock", ![t].len = Len(Data(d))]
  /\ null_sum' = null_sum + Len(Data(d))
  /\ null_calls' = null_calls + 1
  /\ UNCHANGED <<counter, lock, null_returned>>

\* self.0.lock().unwrap()
NullLock(t) ==
  /\ producer[t].pc = "lock"
  /\ lock_free(lock)
  /\ lock' = t
  /\ producer' = [producer EXCEPT ![t].pc = "load"]
  /\ UNCHANGED <<counter, null_sum, null_returned, null_calls>>

\* *guard += data.len(): the load
NullLoad(t) ==
  /\ producer[t].pc = "load"
  /\ producer' = [producer EXCEPT ![t].pc = "store", ![t].reg = counter]
  /\ UNCHANGED <<counter, lock, null_sum, null_returned, null_calls>>

\* *guard += data.len(): the store
NullStore(t) ==
  /\ producer[t].pc = "store"
  /\ counter' = producer[t].reg + producer[t].len
  /\ producer' = [producer EXCEPT ![t].pc = "unlock"]
  /\ UNCHANGED <<lock, null_sum, null_returned, null_calls>>

\* the guard is dropped and Ok(Arc::default()) returned
NullReturn(t) ==
  /\ producer[t].pc = "unlock"
  /\ lock' = IF lock = t THEN 0 ELSE lock
  /\ producer' = [producer EXCEPT ![t].pc = "idle", ![t].len = 0, ![t].reg = 0]
  /\ null_returned' = null_returned \cup {DefaultPointer}
  /\ UNCHANGED <<counter, null_sum, null_calls>>

\* NullStorage::flush
NullFlush(t) ==
  /\ null_calls < MaxNullCalls
  /\ producer[t].live /\ producer[t].pc = "idle"
  /\ null_calls' = null_calls + 1
  /\ UNCHANGED <<counter, lock, producer, null_sum, null_returned>>

\* #[derive(Clone)]: the clone shares the Arc
NullClone(t, u) ==
  /\ producer[t].live /\ producer[t].pc = "idle"
  /\ ~producer[u].live
  /\ \A k \in Insts : k < u => producer[k].live
  /\ producer' = [producer EXCEPT ![u] = [NoProducer EXCEPT !.live = TRUE]]
  /\ UNCHANGED <<counter, lock, null_sum, null_returned, null_calls>>

NullNext ==
  \/ \E t \in Insts, d \in {1, 2} :
       NullStoreChunk(t, d) /\ UNCHANGED <<StorageVars, ObjectVars>>
  \/ \E t \in Insts : NullLock(t) /\ UNCHANGED <<StorageVars, ObjectVars>>
  \/ \E t \in Insts : NullLoad(t) /\ UNCHANGED <<StorageVars, ObjectVars>>
  \/ \E t \in Insts : NullStore(t) /\ UNCHANGED <<StorageVars, ObjectVars>>
  \/ \E t \in Insts : NullReturn(t) /\ UNCHANGED <<StorageVars, ObjectVars>>
  \/ \E t \in Insts : NullFlush(t) /\ UNCHANGED <<StorageVars, ObjectVars>>
  \/ \E t \in Insts, u \in Insts :
       NullClone(t, u) /\ UNCHANGED <<StorageVars, ObjectVars>>

SpecNull == NullInit /\ [][NullNext]_vars

\* ------------------------------------------------------------- claims
\* what the last call read and produced
LastInst == storage[last.inst]
LastSize == Len(compress_block(Data(last.data)).bytes)
LastStore == last.op = "store_chunk" /\ last.result # "codec_err"
LastPtr == last.ptr[1]
\* the write_object calls the last call made
LastWrites == SubSeq(backend, last.nback + 1, Len(backend))
\* the payload of an object: the bytes at offsets [0, cursor)
Payload(object) == SubSeq(object.buffer, 1, object.cursor)
\* the bytes of a buffer at offsets [offs, offs + size)
Range(buffer, offs, size) == SubSeq(buffer, offs + 1, offs + size)

\* C1: the in-progress object's cursor never exceeds its capacity; a
\* store_chunk of a chunk no larger than the capacity with
\* cursor + size > capacity makes exactly one write_object call, handing over
\* the object as it was before the chunk's bytes are written, and one with
\* cursor + size <= capacity makes none.
C1_CapacityInvariant ==
  /\ \A i \in Insts : storage[i].live =>
       /\ storage[i].object.cursor <= storage[i].object.capacity
       /\ storage[i].object.cursor <= storage[i].capacity
  /\ (LastStore /\ LastSize <= last.pre.capacity) =>
       IF last.pre.object.cursor + LastSize > last.pre.capacity
         THEN /\ last.nflush = 1
              /\ Len(LastWrites) = 1
              /\ LastWrites[1].inst = last.inst
              /\ LastWrites[1].object.id = last.pre.object.id
              /\ LastWrites[1].object.cursor = last.pre.object.cursor
              /\ Payload(LastWrites[1].object) = Payload(last.pre.object)
              /\ last.result = "ok" =>
                   /\ LastPtr.offs = 0
                   /\ LastInst.object.cursor = LastSize
         ELSE /\ last.nflush = 0
              /\ LastWrites = <<>>
              /\ last.result = "ok"
              /\ LastInst.object.cursor = last.pre.object.cursor + LastSize

\* C1 witness: a store_chunk that did not fit flushed once and then wrote.
C1_Witness ==
  /\ LastStore /\ last.result = "ok" /\ last.nflush = 1
  /\ last.pre.object.cursor > 0
  /\ last.pre.object.cursor + LastSize > last.pre.capacity
  /\ LastSize <= last.pre.capacity

C3_AfterFirst == ncalls = 1 /\ LastStore /\ LastSize = 8
C3_AfterSecond ==
  /\ ncalls = 2 /\ LastStore /\ LastSize = 5
  /\ Len(returned) >= 1 /\ returned[1].ptr.size = 8

C4_ExactFit ==
  (LastStore /\ last.pre.object.cursor + LastSize = last.pre.capacity) =>
    /\ last.result = "ok"
    /\ last.nflush = 0
    /\ Len(backend) = last.nback
    /\ LastPtr.offs = last.pre.object.cursor
    /\ LastPtr.size = LastSize
    /\ LastPtr.file = last.pre.object.id
    /\ LastInst.object.id = last.pre.object.id
    /\ LastInst.object.cursor = LastInst.object.capacity
    /\ Payload(last.pre.object) =
         SubSeq(LastInst.object.buffer, 1, last.pre.object.cursor)
    /\ Range(LastInst.object.buffer, LastPtr.offs, LastPtr.size) =
         encrypt_chunk(last.pre.object, last.hash,
                       compress_block(Data(last.data)).bytes).bytes

\* C4 witness: a chunk that exactly filled an object that already held one.
C4_Witness ==
  /\ LastStore /\ last.result = "ok"
  /\ last.pre.object.cursor > 0
  /\ last.pre.object.cursor + LastSize = last.pre.capacity

\* a flush, explicit or inside store_chunk, whose write_object succeeded
LastFlushed ==
  /\ last.op \in {"flush", "store_chunk"}
  /\ last.nflush = 1
  /\ last.result # "backend_err"

\* C5: after a successful flush exactly one object was handed to the backend,
\* under the identifier the object had before; the in-progress object has an
\* identifier that differs from it (and from every one handed over so far),
\* the capacity it had, and, right after the flush, cursor 0.
C5_Rotation ==
  LastFlushed =>
    /\ Len(LastWrites) = 1
    /\ LastWrites[1].ok
    /\ LastWrites[1].object.id = last.pre.object.id
    /\ LastInst.object.id # last.pre.object.id
    /\ \A k \in 1..Len(backend) : backend[k].object.id # LastInst.object.id
    /\ LastInst.object.capacity = last.pre.object.capacity
    /\ LastInst.capacity = last.pre.capacity
    /\ last.op = "flush" => LastInst.object.cursor = 0
    /\ (last.op = "store_chunk" /\ last.result = "ok") =>
         LastPtr.offs = 0 /\ LastInst.object.cursor = LastSize
    /\ (last.op = "store_chunk" /\ last.result = "panic") =>
         LastInst.object.cursor = 0

\* C5 witness: an explicit flush of an object that held a chunk succeeded.
C5_Witness ==
  /\ LastFlushed /\ last.op = "flush"
  /\ last.pre.object.cursor > 0
  /\ LastInst.object.cursor = 0

\* a pair of write_object calls by one instance, the first of which failed,
\* with no write_object call of that instance between them
RetryPair(k, m) ==
  /\ k < m
  /\ backend[k].inst = backend[m].inst
  /\ ~backend[k].ok
  /\ \A x \in (k + 1)..(m - 1) : backend[x].inst # backend[k].inst

\* C6: a flush whose backend write fails returns a backend error and leaves
\* the object's identifier, cursor, capacity and the bytes in [0, cursor) as
\* they were; the next write_object call of the instance hands over the same
\* identifier with the same bytes at those offsets, and a flush retried at
\* once hands over the same identifier, cursor and payload.
C6_FailedFlushKeepsObject ==
  /\ (last.op = "flush" /\ ~LastWrites[1].ok) =>
       /\ last.result = "backend_err"
       /\ LastInst.live
       /\ LastInst.object.id = last.pre.object.id
       /\ LastInst.object.cursor = last.pre.object.cursor
       /\ LastInst.object.capacity = last.pre.object.capacity
       /\ LastInst.capacity = last.pre.capacity
       /\ Payload(LastInst.object) = Payload(last.pre.object)
       /\ LastWrites[1].object.id = last.pre.object.id
       /\ Payload(LastWrites[1].object) = Payload(last.pre.object)
  /\ \A k \in 1..Len(backend), m \in 1..Len(backend) : RetryPair(k, m) =>
       /\ backend[m].object.id = backend[k].object.id
       /\ backend[m].object.cursor >= backend[k].object.cursor
       /\ SubSeq(backend[m].object.buffer, 1, backend[k].object.cursor) =
            Payload(backend[k].object)
  /\ (last.op = "flush" /\ last.nback > 0 /\ RetryPair(last.nback, Len(backend))
        /\ last.pre.object.cursor = backend[last.nback].object.cursor) =>
       Payload(backend[Len(backend)].object) = Payload(backend[last.nback].object)

\* C6 witness: a flush of an object holding a chunk failed and its retry
\* succeeded.
C6_Witness ==
  /\ last.op = "flush" /\ last.result = "ok" /\ last.nback > 0
  /\ RetryPair(last.nback, Len(backend))
  /\ backend[Len(backend)].ok
  /\ backend[last.nback].object.cursor > 0
  /\ last.pre.object.cursor = backend[last.nback].object.cursor

\* C7 as stated: after a failed flush every byte of the buffer, over
\* [0, BLOCK_SIZE), is what it was before the call.
C7_WholeBufferKept ==
  (last.op = "flush" /\ last.result = "backend_err") =>
    LastInst.object.buffer = last.pre.object.buffer

\* C7, amended: after a failed flush the bytes in [0, cursor) are what they
\* were before the call, and the bytes in [cursor, BLOCK_SIZE) are the random
\* bytes finalize drew in that call, before the backend write was tried.
C7_PayloadKeptTailRandom ==
  (last.op = "flush" /\ last.result = "backend_err") =>
    /\ Len(LastInst.object.buffer) = BLOCK_SIZE
    /\ LastInst.object.cursor = last.pre.object.cursor
    /\ \A p \in 1..BLOCK_SIZE :
         IF p <= last.pre.object.cursor
           THEN LastInst.object.buffer[p] = last.pre.object.buffer[p]
           ELSE /\ LastInst.object.buffer[p] = RandomByte(nextFill - 1, p)
                /\ LastInst.object.buffer[p] # last.pre.object.buffer[p]

\* C7 witness: a failed flush of an object that holds a chunk and has a tail.
C7_Witness ==
  /\ last.op = "flush" /\ last.result = "backend_err"
  /\ last.pre.object.cursor > 0
  /\ last.pre.object.cursor < BLOCK_SIZE

\* C8: a store_chunk whose flush fails records nothing of the chunk: cursor,
\* identifier and the bytes in [0, cursor) stay, and no pointer is returned;
\* the same call repeated, with the backend now succeeding, hands the old
\* object over exactly once and returns a pointer at offset 0 of a new
\* object, which holds the chunk and nothing else.
C8_FailedStoreRetry ==
  [][/\ (last'.op = "store_chunk" /\ last'.result = "backend_err") =>
          /\ last'.ptr = NoPtr
          /\ returned' = returned
          /\ last'.nflush = 1
          /\ Len(backend') = Len(backend) + 1
          /\ storage'[last'.inst].live
          /\ storage'[last'.inst].object.id = storage[last'.inst].object.id
          /\ storage'[last'.inst].object.cursor = storage[last'.inst].object.cursor
          /\ Payload(storage'[last'.inst].object) = Payload(storage[last'.inst].object)
     /\ (/\ last.op = "store_chunk" /\ last.result = "backend_err"
         /\ last'.op = "store_chunk" /\ last'.inst = last.inst
         /\ last'.data = last.data /\ last'.hash = last.hash
         /\ last'.result = "ok") =>
          /\ Len(backend') = Len(backend) + 1
          /\ backend'[Len(backend')].ok
          /\ backend'[Len(backend')].object.id = last.pre.object.id
          /\ backend'[Len(backend')].object.cursor = last.pre.object.cursor
          /\ Payload(backend'[Len(backend')].object) = Payload(last.pre.object)
          /\ Len(returned') = Len(returned) + 1
          /\ last'.ptr[1].offs = 0
          /\ last'.ptr[1].file = storage'[last.inst].object.id
          /\ last'.ptr[1].file # last.pre.object.id
          /\ Payload(storage'[last.inst].object) =
               encrypt_chunk(storage'[last.inst].object, last.hash,
                             compress_block(Data(last.data)).bytes).bytes
    ]_vars

\* C8 witness: a store_chunk succeeded on an instance whose previous
\* write_object call, made by a store_chunk with the same arguments for an
\* object holding a chunk, had failed.
C8_Witness ==
  /\ LastStore /\ last.result = "ok" /\ last.nflush = 1 /\ last.nback > 0
  /\ backend[last.nback].inst = last.inst
  /\ ~backend[last.nback].ok
  /\ backend[last.nback].data = last.data
  /\ backend[last.nback].hash = last.hash
  /\ backend[last.nback].object.cursor = last.pre.object.cursor
  /\ last.pre.object.cursor > 0
  /\ LastPtr.offs = 0

\* what reversing encryption and compression makes of the bytes a pointer
\* names in an object
ReadBack(object, ptr) ==
  decompress_block(
    decrypt_chunk(ptr.file, ptr.hash, Range(object.buffer, ptr.offs, ptr.size)))

\* C9: the pointer store_chunk returns names the object the chunk was
\* written into (the new one after a flush), the bytes there are the chunk
\* encrypted for that identifier, and in every object the backend accepted
\* the bytes a pointer with its identifier names decrypt and decompress to
\* the chunk stored.
C9_RoundTrip ==
  /\ (LastStore /\ last.result = "ok") =>
       /\ LastPtr.file = LastInst.object.id
       /\ last.nflush = 1 => LastPtr.file # last.pre.object.id
       /\ LastPtr.offs + LastPtr.size = LastInst.object.cursor
       /\ Range(LastInst.object.buffer, LastPtr.offs, LastPtr.size) =
            encrypt_chunk(LastInst.object, last.hash,
                          compress_block(Data(last.data)).bytes).bytes
       /\ LastPtr.tag =
            encrypt_chunk(LastInst.object, last.hash,
                          compress_block(Data(last.data)).bytes).tag
       /\ ReadBack(LastInst.object, LastPtr) = Data(last.data)
  /\ \A k \in 1..Len(backend), r \in 1..Len(returned) :
       (backend[k].ok /\ returned[r].ptr.file = backend[k].object.id) =>
         /\ backend[k].inst = returned[r].inst
         /\ returned[r].ptr.offs + returned[r].ptr.size <= backend[k].object.cursor
         /\ ReadBack(backend[k].object, returned[r].ptr) = Data(returned[r].data)
  /\ \A r \in 1..Len(returned) :
       storage[returned[r].inst].object.id = returned[r].ptr.file =>
         ReadBack(storage[returned[r].inst].object, returned[r].ptr)
           = Data(returned[r].data)

\* C9 witness: the backend accepted an object holding two chunks, and the
\* second one's pointer names it.
C9_Witness ==
  \E k \in 1..Len(backend), r \in 1..Len(returned) :
    /\ backend[k].ok
    /\ returned[r].ptr.file = backend[k].object.id
    /\ returned[r].ptr.offs > 0
    /\ ReadBack(backend[k].object, returned[r].ptr) = Data(returned[r].data)

\* C10: no two pointers returned, by the original or by a clone, name the
\* same identifier with overlapping ranges, and a clone leaves the original
\* as it was and has an identifier of its own.
C10_NoOverlap ==
  /\ \A a \in 1..Len(returned), b \in 1..Len(returned) :
       (a < b /\ returned[a].ptr.file = returned[b].ptr.file) =>
         \/ returned[a].ptr.offs + returned[a].ptr.size <= returned[b].ptr.offs
         \/ returned[b].ptr.offs + returned[b].ptr.size <= returned[a].ptr.offs
  /\ last.op = "clone" =>
       /\ storage[last.src] = last.pre
       /\ LastInst.object.id # last.pre.object.id
       /\ LastInst.object.buffer = last.pre.object.buffer
       /\ LastInst.object.cursor = last.pre.object.cursor
  /\ \A i \in Insts, j \in Insts :
       (i # j /\ storage[i].live /\ storage[j].live) =>
         storage[i].object.id # storage[j].object.id

\* C10 witness: the original and its clone each returned a pointer, and the
\* two ranges overlap.
C10_Witness ==
  \E a \in 1..Len(returned), b \in 1..Len(returned) :
    /\ returned[a].inst # returned[b].inst
    /\ returned[a].ptr.offs < returned[b].ptr.offs + returned[b].ptr.size
    /\ returned[b].ptr.offs < returned[a].ptr.offs + returned[a].ptr.size
    /\ returned[a].ptr.file # returned[b].ptr.file

\* two pointers returned to one instance, the second right after the first
NextPointer(a, b) ==
  /\ a < b
  /\ returned[a].inst = returned[b].inst
  /\ \A x \in (a + 1)..(b - 1) : returned[x].inst # returned[a].inst

\* C11: within one instance the cursor of an object never decreases, two
\* pointers returned one after the other for the same object are adjacent
\* (offs2 = offs1 + size1), and an object is accepted by the backend before
\* the first chunk of the instance's next object is stored, so objects reach
\* the backend in the order of their first chunks.
C11_AppendOrder ==
  /\ (last.op \in {"store_chunk", "flush"}
        /\ LastInst.object.id = last.pre.object.id) =>
       LastInst.object.cursor >= last.pre.object.cursor
  /\ \A a \in 1..Len(returned), b \in 1..Len(returned) :
       (NextPointer(a, b) /\ returned[a].ptr.file = returned[b].ptr.file) =>
         returned[b].ptr.offs = returned[a].ptr.offs + returned[a].ptr.size
  /\ \A a \in 1..Len(returned), b \in 1..Len(returned) :
       (a < b /\ returned[a].inst = returned[b].inst
          /\ returned[a].ptr.file # returned[b].ptr.file) =>
         \E k \in 1..Len(backend) :
           /\ backend[k].ok
           /\ backend[k].inst = returned[a].inst
           /\ backend[k].object.id = returned[a].ptr.file
           /\ \A m \in 1..Len(backend) :
                backend[m].object.id = returned[b].ptr.file => k < m

\* C11 witness: an instance stored two chunks in one object and a third in
\* the next, and the backend accepted both objects.
C11_Witness ==
  \E a \in 1..Len(returned), b \in 1..Len(returned), k \in 1..Len(backend),
     m \in 1..Len(backend) :
    /\ NextPointer(a, b)
    /\ returned[a].ptr.file # returned[b].ptr.file
    /\ returned[a].ptr.offs > 0
    /\ backend[k].ok /\ backend[k].object.id = returned[a].ptr.file
    /\ backend[m].ok /\ backend[m].object.id = returned[b].ptr.file

\* C12: in every object handed to write_object, every byte at an offset in
\* [cursor, BLOCK_SIZE) was drawn from the random source by the finalize of
\* that very flush (the k-th write_object call follows the k-th fill): none
\* is a zero of the initial buffer or a byte left by an earlier object.
C12_TailIsFreshRandom ==
  \A k \in 1..Len(backend) :
    /\ Len(backend[k].object.buffer) = BLOCK_SIZE
    /\ \A p \in 1..BLOCK_SIZE :
         p > backend[k].object.cursor =>
           backend[k].object.buffer[p] = RandomByte(k, p)

\* C12 witness: the backend accepted an object shorter than the one the
\* same buffer held before it.
C12_Witness ==
  \E k \in 1..Len(backend), m \in 1..Len(backend) :
    /\ k < m
    /\ backend[k].inst = backend[m].inst
    /\ backend[k].ok /\ backend[m].ok
    /\ backend[m].object.cursor > 0
    /\ backend[m].object.cursor < backend[k].object.cursor
    /\ backend[m].object.cursor < BLOCK_SIZE

\* C13, for an object whose capacity lies within its buffer: a read of n
\* bytes succeeds, returns the bytes at [cursor, cursor + n) and advances the
\* cursor by n exactly when cursor + n <= capacity; otherwise it fails with
\* an end-of-data error, returns no byte and leaves the cursor.
C13_ReadBoundedByCapacity ==
  (obj_last.op = "read" /\ obj_last.pre.capacity <= Len(obj_last.pre.buffer)) =>
    LET n == obj_last.arg[2]
        pre == obj_last.pre
    IN
    IF pre.cursor + n <= pre.capacity
      THEN /\ obj_last.result = "ok"
           /\ obj.object.cursor = pre.cursor + n
           /\ obj_last.bytes = SubSeq(pre.buffer, pre.cursor + 1, pre.cursor + n)
      ELSE /\ obj_last.result = "eof"
           /\ obj_last.bytes = <<>>
           /\ obj.object.cursor = pre.cursor

\* C14: a seek on an object with 0 <= cursor <= capacity either succeeds,
\* leaving the cursor in [0, capacity] and returning it, or fails with an
\* invalid-input error and leaves the cursor where it was.
C14_SeekStaysInCapacity ==
  (obj_last.op = "seek" /\ obj_last.pre.cursor >= 0
     /\ obj_last.pre.cursor <= obj_last.pre.capacity) =>
    \/ /\ obj_last.result = "ok"
       /\ obj.object.cursor >= 0
       /\ obj.object.cursor <= obj.object.capacity
       /\ obj_last.ret = obj.object.cursor
    \/ /\ obj_last.result = "invalid"
       /\ obj.object.cursor = obj_last.pre.cursor

\* no call is in progress on any NullStorage clone
NullQuiet == \A t \in Insts : producer[t].pc = "idle"

\* the payload lengths of the calls in progress that have not stored yet
RECURSIVE PendingLen(_)
PendingLen(ts) ==
  IF ts = {} THEN 0
  ELSE LET t == CHOOSE x \in ts : TRUE IN
       (IF producer[t].pc \in {"lock", "load", "store"} THEN producer[t].len
        ELSE 0) + PendingLen(ts \ {t})

\* the counter accounts for every call made, and only placeholders came back
NullAccounted ==
  /\ NullQuiet => counter = null_sum
  /\ counter + PendingLen(Insts) = null_sum
  /\ null_returned \subseteq {DefaultPointer}

\* C15: whenever no call is in progress the counter holds the sum of the
\* payload lengths of all the calls made on all the clones (no update is
\* lost); while calls are in progress it lags by the lengths of exactly the
\* calls that have not stored yet; every pointer returned is the placeholder;
\* and a flush changes neither the counter nor any clone.
C15_NoLostUpdate ==
  /\ []NullAccounted
  /\ [][\A t \in Insts : NullFlush(t) =>
          UNCHANGED <<counter, lock, producer, null_sum, null_returned>>]_vars

\* two clones have stored chunks of different lengths and all calls returned
C15_Witness ==
  /\ NullQuiet
  /\ producer[2].live
  /\ null_calls = MaxNullCalls
  /\ counter = 10 + 4 + 4
  /\ null_returned = {DefaultPointer}

\* C16: every Object made by new, with_id or default and then driven by
\* reserve_tag, clear, write, read and seek has capacity <= buffer length, so
\* the views as_ref/as_mut and write_tag never address beyond the buffer.
C16_CapacityWithinBuffer == obj.live => ~view_panics(obj.object)

\* the returned pointers of instance i that name the object id
PointersOf(i, id) ==
  {m \in 1..Len(returned) : returned[m].inst = i /\ returned[m].ptr.file = id}

\* the byte positions (from 1) the pointer covers
Covers(ptr) == (ptr.offs + 1)..(ptr.offs + ptr.size)

\* the pointers indexed by M cover lo+1..hi, each position exactly once
Tiled(M, lo, hi) ==
  /\ UNION {Covers(returned[m].ptr) : m \in M} = (lo + 1)..hi
  /\ \A m1 \in M, m2 \in M :
       m1 # m2 => Covers(returned[m1].ptr) \cap Covers(returned[m2].ptr) = {}

\* the payload positions of the object whose bytes were encrypted under
\* another object's identifier
Foreign(object) ==
  {p \in 1..object.cursor : object.buffer[p][2] # object.id}

\* the objects the backend accepted
Persisted == {k \in 1..Len(backend) : backend[k].ok}

WrittenIds == {backend[k].object.id : k \in Persisted}

\* C18: under any pattern of backend failures and retries, on all instances
\* sharing the backend, no identifier is accepted by the backend twice; every
\* pointer returned names an accepted identifier or the identifier of the
\* object its instance still holds; and right after an instance's flush
\* succeeded, every pointer it had returned before names an accepted
\* identifier and the instance holds an identifier no pointer names.
C18_WrittenOnce ==
  /\ \A k1 \in Persisted, k2 \in Persisted :
       backend[k1].object.id = backend[k2].object.id => k1 = k2
  /\ \A m \in 1..Len(returned) :
       \/ returned[m].ptr.file \in WrittenIds
       \/ returned[m].ptr.file = storage[returned[m].inst].object.id
  /\ LastFlushed =>
       /\ LastInst.object.id \notin WrittenIds
       /\ \A m \in 1..last.nret :
            /\ returned[m].ptr.file # LastInst.object.id
            /\ returned[m].inst = last.inst =>
                 returned[m].ptr.file \in WrittenIds

\* an instance returned two pointers of an object around a failed flush of
\* it, and its retried flush has just succeeded
C18_Witness ==
  /\ LastFlushed
  /\ \E k \in 1..Len(backend) :
       /\ ~backend[k].ok
       /\ backend[k].inst = last.inst
       /\ backend[k].object.id = last.pre.object.id
  /\ Cardinality(PointersOf(last.inst, last.pre.object.id)) = 2
  /\ last.pre.object.id \in WrittenIds

\* the last call was a store_chunk of a chunk that compresses to more than
\* the capacity
LastOversize == LastStore /\ LastSize > last.pre.capacity

\* C19: a store_chunk whose compressed chunk exceeds the capacity checks the
\* capacity once and flushes the current object once, even an empty one;
\* when the backend accepts it the write of the chunk aborts (panics):
\* no pointer is returned, the cursor stays at 0 and the buffer holds what
\* the flush left; when the backend refuses, the call fails before the write.
\* No cursor ever exceeds the capacity and no buffer grows.
C19_OversizeAborts ==
  /\ \A i \in Insts :
       /\ storage[i].object.cursor <= storage[i].capacity
       /\ storage[i].live => Len(storage[i].object.buffer) = BLOCK_SIZE
  /\ LastOversize =>
       /\ last.nflush = 1
       /\ Len(LastWrites) = 1
       /\ LastWrites[1].object.id = last.pre.object.id
       /\ LastWrites[1].object.cursor = last.pre.object.cursor
       /\ last.ptr = NoPtr
       /\ Len(returned) = last.nret
       /\ last.result = IF LastWrites[1].ok THEN "panic" ELSE "backend_err"
       /\ Len(LastInst.object.buffer) = BLOCK_SIZE
       /\ LastInst.object.buffer = LastWrites[1].object.buffer
       /\ last.result = "panic" =>
            /\ LastInst.object.cursor = 0
            /\ LastInst.object.id # last.pre.object.id
            /\ ~LastInst.live
       /\ last.result = "backend_err" => LastInst.object = LastWrites[1].object

\* an oversize chunk was stored on an empty object: the backend accepted
\* the empty object and the write aborted
C19_Witness ==
  /\ LastOversize
  /\ last.pre.object.cursor = 0
  /\ last.result = "panic"
  /\ LastWrites[1].ok

====
